---- MODULE Spec2Model ----
(***************************************************************************)
(* HR ID card generator (src/app.py): a model of the Streamlit script.     *)
(*                                                                         *)
(* Text is a sequence of characters, each character a one-element string   *)
(* (the one character outside the barcode's character set is written       *)
(* "ARABIC3").  A spreadsheet cell is a record: NaN for an empty cell, or   *)
(* a string.  A directory tree is what os.walk yields for it: a sequence   *)
(* of directories, top-down, each with its file names in listing order.    *)
(* Images live in a heap (a sequence of image records); an image value in  *)
(* the script is an index into it, so that copying and aliasing differ.    *)
(***************************************************************************)
EXTENDS Integers, Sequences, FiniteSets, TLC

VARIABLES
    pc,            \* position of the script run
    uploads,       \* what the user uploaded: each file absent, readable or not
    ui,            \* everything the run has emitted through st.*, in order
    fonts,         \* font_ar, font_en once loaded
    df,            \* the roster read from the spreadsheet
    images,        \* heap of PIL images
    template,      \* the template image (heap index), 0 before it is read
    tmpdir,        \* state of the extraction directory and its os.walk listing
    idx,           \* row index of the row loop (0-based, as df.iterrows gives it)
    output_cards,  \* heap indices of the cards appended so far
    barcode_tmp,   \* temporary barcode files left on disk (by row index)
    pdf,           \* the written document and whether it was offered
    lookup,        \* one stand-alone call of find_photo_path
    fontcall       \* one stand-alone call of load_font_from_upload

vars == <<pc, uploads, ui, fonts, df, images, template, tmpdir, idx, output_cards,
          barcode_tmp, pdf, lookup, fontcall>>

\* ------------------------------------------------------------------ bounds

MaxRows == 2
MaxZipFiles == 2
MaxLookupFiles == 3

\* ------------------------------------------------------------------ text

UpperToLower ==
    [c \in {"A","B","C","D","E","G","I","J","L","N","O","P","Z"} |->
        CASE c = "A" -> "a" [] c = "B" -> "b" [] c = "C" -> "c" [] c = "D" -> "d"
          [] c = "E" -> "e" [] c = "G" -> "g" [] c = "I" -> "i" [] c = "J" -> "j"
          [] c = "L" -> "l" [] c = "N" -> "n" [] c = "O" -> "o" [] c = "P" -> "p"
          [] c = "Z" -> "z"]

\* str.lower()
Lower(s) ==
    [i \in 1..Len(s) |-> IF s[i] \in DOMAIN UpperToLower THEN UpperToLower[s[i]] ELSE s[i]]

WhiteSpace == {" ", "\t", "\n"}

RECURSIVE LStrip(_)
LStrip(s) ==
    IF s = <<>> THEN s
    ELSE IF Head(s) \in WhiteSpace THEN LStrip(Tail(s)) ELSE s

RECURSIVE RStrip(_)
RStrip(s) ==
    IF s = <<>> THEN s
    ELSE IF s[Len(s)] \in WhiteSpace THEN RStrip(SubSeq(s, 1, Len(s) - 1)) ELSE s

\* str.strip()
Strip(s) == RStrip(LStrip(s))

\* str.rfind(c), 1-based; 0 when c does not occur
RFind(s, c) ==
    LET at == {i \in 1..Len(s) : s[i] = c}
    IN  IF at = {} THEN 0 ELSE CHOOSE i \in at : \A j \in at : j <= i

RECURSIVE DropTrailing(_, _)
DropTrailing(s, c) ==
    IF s # <<>> /\ s[Len(s)] = c THEN DropTrailing(SubSeq(s, 1, Len(s) - 1), c) ELSE s

\* pathlib: Path(p).name, the final path component (trailing separators dropped)
PathName(p) ==
    LET q == DropTrailing(p, "/")
        k == RFind(q, "/")
    IN  SubSeq(q, k + 1, Len(q))

\* pathlib: Path(p).suffix, the part of the name from its last dot, when
\* that dot is neither the first nor the last character of the name
PathSuffix(p) ==
    LET n == PathName(p)
        k == RFind(n, ".")
    IN  IF 1 < k /\ k < Len(n) THEN SubSeq(n, k, Len(n)) ELSE <<>>

\* pathlib: Path(p).stem, the name without its suffix
PathStem(p) ==
    LET n == PathName(p)
    IN  SubSeq(n, 1, Len(n) - Len(PathSuffix(p)))

\* ------------------------------------------------------------------ files

NoPath == [found |-> FALSE]

\* os.path.join(dirpath, fn)
JoinPath(dirpath, fn) == [found |-> TRUE, dir |-> dirpath, name |-> fn]

\* the (dirpath, fn) pairs of a walk in the order the two nested loops over
\* os.walk(root_dir) visit them
RECURSIVE WalkEntries(_)
WalkEntries(walk) ==
    IF walk = <<>> THEN <<>>
    ELSE [i \in 1..Len(Head(walk).filenames) |->
              JoinPath(Head(walk).dirpath, Head(walk).filenames[i])]
         \o WalkEntries(Tail(walk))

\* os.path.exists(path) for a path inside the walked tree
PathExists(walk, path) ==
    /\ path.found
    /\ \E i \in 1..Len(WalkEntries(walk)) : WalkEntries(walk)[i] = path

\* find_photo_path that compares stems case-sensitively
FindCaseSensitive(walk, requested) ==
    IF requested = <<>> THEN NoPath
    ELSE LET req_stem == PathStem(requested)
             es == WalkEntries(walk)
             hits == {i \in 1..Len(es) : PathStem(es[i].name) = req_stem}
         IN  IF hits = {} THEN NoPath
             ELSE es[CHOOSE i \in hits : \A j \in hits : i <= j]

\* find_photo_path(root_dir, requested): the first file, in walk order, whose
\* stem equals the requested stem ignoring case; None for an empty request
\* or when no file matches
find_photo_path(walk, requested) ==
    IF requested = <<>> THEN NoPath
    ELSE LET req_stem == Lower(PathStem(requested))
             es == WalkEntries(walk)
             hits == {i \in 1..Len(es) : Lower(PathStem(es[i].name)) = req_stem}
         IN  IF hits = {} THEN NoPath
             ELSE es[CHOOSE i \in hits : \A j \in hits : i <= j]

\* ------------------------------------------------------------------ roster

NaN == [nan |-> TRUE, s |-> <<>>]
Str(s) == [nan |-> FALSE, s |-> s]

\* str(x) of a cell value: an empty spreadsheet cell is the float nan
PyStr(cell) == IF cell.nan THEN <<"n", "a", "n">> ELSE cell.s

Columns == {"name", "job", "num", "national_id", "photo"}

\* row.get(col, ""): the cell, or the default "" when the column is absent
RowGet(row, col) == IF col \in DOMAIN row THEN row[col] ELSE Str(<<>>)

\* str(row.get(col, "")).strip(): the text the row loop uses for a field
Field(row, col) == Strip(PyStr(RowGet(row, col)))

\* ------------------------------------------------------------------ config

PHOTO_POS == <<111, 168>>
PHOTO_SIZE == <<300, 300>>
BARCODE_POS == <<570, 465>>
BARCODE_SIZE == <<390, 120>>
NAME_OFFSET_X == -40
NAME_OFFSET_Y == -20

\* ------------------------------------------------------------------ fonts

FontCandidates ==
    <<"Amiri-Regular.ttf", "NotoNaskhArabic-Regular.ttf", "Arial.ttf", "Tahoma.ttf">>

\* load_font_from_upload that goes from a failed upload straight to the
\* built-in default, without trying the candidate names
LoadFontNoFallback(upload, fallback_name, size, installed) ==
    LET loadable == {i \in 1..Len(FontCandidates) : FontCandidates[i] \in installed}
    IN  IF upload = "good"
        THEN [font |-> [face |-> "upload", size |-> size], said |-> <<>>]
        ELSE IF upload = "bad"
        THEN [font |-> [face |-> "default", size |-> 10],
              said |-> <<[level |-> "warning", kind |-> "font_upload_failed",
                          font |-> fallback_name]>>]
        ELSE IF loadable # {}
        THEN [font |-> [face |-> FontCandidates[CHOOSE i \in loadable :
                                                   \A j \in loadable : i <= j],
                        size |-> size],
              said |-> <<>>]
        ELSE [font |-> [face |-> "default", size |-> 10], said |-> <<>>]

\* load_font_from_upload(upload, fallback_name, size) on a machine where the
\* fonts `installed` can be loaded by name.  upload is "none", "good" (a
\* loadable font file) or "bad".  Gives the font and the messages emitted.
load_font_from_upload(upload, fallback_name, size, installed) ==
    LET said == IF upload = "bad"
                THEN <<[level |-> "warning", kind |-> "font_upload_failed",
                        font |-> fallback_name]>>
                ELSE <<>>
        loadable == {i \in 1..Len(FontCandidates) : FontCandidates[i] \in installed}
    IN  IF upload = "good"
        THEN [font |-> [face |-> "upload", size |-> size], said |-> <<>>]
        ELSE IF loadable # {}
        THEN [font |-> [face |-> FontCandidates[CHOOSE i \in loadable :
                                                   \A j \in loadable : i <= j],
                        size |-> size],
              said |-> said]
        ELSE [font |-> [face |-> "default", size |-> 10], said |-> said]

\* ------------------------------------------------------------------ drawing

\* prepare_text(text): "" for empty text, else the reshaped and reordered
\* text, kept as the logical text marked as shaped
prepare_text(text) ==
    IF text = <<>> THEN [s |-> <<>>, shaped |-> FALSE]
    ELSE [s |-> text, shaped |-> TRUE]

\* A length in pixels: a whole number plus the signed edges of measured ink
\* boxes.  Where an edge of a text's ink box lies depends on the glyphs of the
\* text and on the face, so an edge is kept as the term that was measured.
Px(n) == [px |-> n, ink |-> <<>>]

Edge(which, text, font) ==
    [px |-> 0, ink |-> <<[sign |-> 1, edge |-> which, text |-> text, font |-> font]>>]

Plus(a, b) == [px |-> a.px + b.px, ink |-> a.ink \o b.ink]

Minus(a, b) ==
    [px |-> a.px - b.px,
     ink |-> a.ink \o [k \in 1..Len(b.ink) |-> [b.ink[k] EXCEPT !.sign = 0 - @]]]

\* draw.textbbox((0, 0), text, font): (left, top, right, bottom) of the ink of
\* the text drawn at the origin, all zero for empty text
textbbox(text, font) ==
    IF text.s = <<>> THEN <<Px(0), Px(0), Px(0), Px(0)>>
    ELSE <<Edge("left", text, font), Edge("top", text, font),
           Edge("right", text, font), Edge("bottom", text, font)>>

\* bbox[3] - bbox[1] of the text's box
TextHeight(text, font) == Minus(textbbox(text, font)[4], textbbox(text, font)[2])

\* draw_aligned_text: the drawing operations it performs (none for empty text);
\* xy is a whole-number x and a length y
draw_aligned_text(xy, text, font, anchor) ==
    IF text.s = <<>> THEN <<>>
    ELSE <<[op |-> "text", xy |-> xy, text |-> text, font |-> font,
            fill |-> "black", anchor |-> anchor]>>

\* draw_bold_text: the same text at the four offsets
draw_bold_text(xy, text, font, anchor) ==
    draw_aligned_text(<<xy[1] + 0, Plus(xy[2], Px(0))>>, text, font, anchor)
    \o draw_aligned_text(<<xy[1] + 1, Plus(xy[2], Px(0))>>, text, font, anchor)
    \o draw_aligned_text(<<xy[1] + 0, Plus(xy[2], Px(1))>>, text, font, anchor)
    \o draw_aligned_text(<<xy[1] + 1, Plus(xy[2], Px(1))>>, text, font, anchor)

Min(a, b) == IF a <= b THEN a ELSE b

\* Image.paste(im, pos): the region of the target that is overwritten, the
\* pasted image clipped to the target's bounds; the target keeps its size
PasteOp(target_size, what, pos, size) ==
    [op |-> "paste", what |-> what,
     box |-> <<Min(pos[1], target_size[1]), Min(pos[2], target_size[2]),
               Min(pos[1] + size[1], target_size[1]),
               Min(pos[2] + size[2], target_size[2])>>]

\* template.copy() that hands back the template itself
AliasCopy(heap, i) == [heap |-> heap, id |-> i]

\* Image.copy(): a new image with the same content
ImageCopy(heap, i) == [heap |-> Append(heap, heap[i]), id |-> Len(heap) + 1]

\* apply drawing operations to the image a Draw object or paste refers to
Drawn(heap, id, ops) == [heap EXCEPT ![id].ops = @ \o ops]

\* the label "employee number: " in front of the number
JobIdPrefix == <<"AR_ALRAQM", " ", "AR_ALWAZIFI", ":", " ">>

\* the text drawing of one row (lines 165-181) as operations on the card
TextOps(name, job, num, font_ar) ==
    LET name_xy == <<915 + NAME_OFFSET_X, Px(240 + NAME_OFFSET_Y)>>
        name_height == Plus(TextHeight(name, font_ar), Px(20))
        job_xy == <<name_xy[1], Plus(name_xy[2], name_height)>>
        job_height == Plus(TextHeight(job, font_ar), Px(25))
        id_xy == <<name_xy[1], Plus(job_xy[2], job_height)>>
        job_id_label == prepare_text(JobIdPrefix \o num)
    IN  draw_bold_text(name_xy, name, font_ar, "rt")
        \o draw_aligned_text(job_xy, job, font_ar, "rt")
        \o draw_aligned_text(id_xy, job_id_label, font_ar, "rt")

\* ------------------------------------------------------------------ barcode

\* characters Code128 can encode (the ASCII range of the model's alphabet)
Code128Chars ==
    {"0", "1", "2", "3", "4", "5", "6", "7", "8", "9", " ", ".", "-",
     "a", "b", "c", "d", "e", "g", "i", "j", "l", "n", "o", "p", "z",
     "A", "B", "C", "D", "E", "G", "I", "J", "L", "N", "O", "P", "Z"}

\* Code128(national_id, ...) accepts the identifier
Encodable(s) == s # <<>> /\ \A i \in 1..Len(s) : s[i] \in Code128Chars

\* Image.open(path) succeeds: the file holds an image, which the model takes
\* from its extension (an extracted photo is what its name says, the
\* uploaded archive is not an image)
ImageSuffixes ==
    {<<".", "p", "n", "g">>, <<".", "j", "p", "g">>, <<".", "j", "p", "e", "g">>,
     <<".", "b", "m", "p">>}

IsImageFile(path) == Lower(PathSuffix(path.name)) \in ImageSuffixes

\* ------------------------------------------------------------------ inputs

bob_png == <<"b", "o", "b", ".", "p", "n", "g">>
bob_jpg == <<"b", "o", "b", ".", "j", "p", "g">>
Alice_PNG == <<"A", "l", "i", "c", "e", ".", "P", "N", "G">>
bob_tar_gz == <<"b", "o", "b", ".", "t", "a", "r", ".", "g", "z">>
photos_zip == <<"p", "h", "o", "t", "o", "s", ".", "z", "i", "p">>

\* sequences of k distinct elements of S
InjSeqs(S, k) == {f \in [1..k -> S] : \A i, j \in 1..k : i # j => f[i] # f[j]}

InjSeqsUpTo(S, n) == UNION {InjSeqs(S, k) : k \in 0..n}

\* what an uploaded archive may hold: files in its root and in a folder "d"
ZipNames == {bob_png, Alice_PNG}

ZipWalks ==
    {<<[dirpath |-> <<>>, filenames |-> f0], [dirpath |-> <<"d">>, filenames |-> f1]>> :
        <<f0, f1>> \in {p \in InjSeqsUpTo(ZipNames, MaxZipFiles)
                              \X InjSeqsUpTo(ZipNames, MaxZipFiles) :
                            Len(p[1]) + Len(p[2]) <= MaxZipFiles}}

\* the rows a roster is made of
RowUniverse ==
    { [name |-> Str(<<"A", "l">>), job |-> Str(<<"h", "r">>), num |-> Str(<<"7">>),
       national_id |-> Str(<<"1", "2">>), photo |-> Str(bob_png)],
      [name |-> Str(<<"B", "o">>), job |-> Str(<<"h", "r">>), num |-> Str(<<"8">>),
       national_id |-> Str(<<"3", "4">>),
       photo |-> Str(<<" ", "A", "l", "i", "c", "e", ".", "j", "p", "g">>)],
      [name |-> Str(<<"D", "i">>), job |-> Str(<<"i", "t">>), num |-> Str(<<"1", "0">>),
       national_id |-> Str(<<" ">>), photo |-> Str(<<"B", "O", "B">>)],
      [name |-> NaN, job |-> NaN, num |-> NaN, national_id |-> NaN, photo |-> NaN],
      [name |-> Str(<<"E", "d">>), job |-> NaN, num |-> Str(<<"1", "1">>),
       national_id |-> Str(<<"1", "ARABIC3">>), photo |-> Str(<<"p", "h", "o", "t", "o", "s">>)] }

\* the column sets a spreadsheet may lack
DroppedColumnSets == {{}, {"photo"}, {"name", "job", "num", "national_id"}}

Rosters ==
    {[columns |-> Columns \ drop,
      rows |-> [i \in 1..Len(rs) |-> [c \in Columns \ drop |-> rs[i][c]]]] :
        <<drop, rs>> \in DroppedColumnSets
                          \X InjSeqsUpTo(RowUniverse, MaxRows)}

TemplateSizes == {<<1000, 600>>, <<600, 400>>}

FontSessions ==
    {[ar |-> "good", en |-> "bad", installed |-> {"Arial.ttf"}]}

\* ------------------------------------------------------------------ run

NoRoster == [columns |-> {}, rows |-> <<>>]
NoDir == [state |-> "none", walk |-> <<>>]
NoPdf == [written |-> FALSE, pages |-> <<>>, offered |-> FALSE]

NoUploads == [excel_file |-> "absent", photos_archive |-> "absent",
              template_file |-> "absent"]

Init ==
    /\ pc = "start"
    /\ uploads = NoUploads
    /\ ui = <<>>
    /\ fonts = [loaded |-> FALSE]
    /\ df = NoRoster
    /\ images = <<>>
    /\ template = 0
    /\ tmpdir = NoDir
    /\ idx = 0
    /\ output_cards = <<>>
    /\ barcode_tmp = {}
    /\ pdf = NoPdf
    /\ lookup = [phase |-> "idle"]
    /\ fontcall = [phase |-> "idle"]

\* an error branch whose st.stop() is missing
StopSkipped(onward) == onward

\* st.stop(): the run ends here; without it the script would go on to `onward`
st_stop(onward) == "stopped"

\* line 93 / 226-227: the user's uploads arrive; the script body runs only
\* with all three present
Gate ==
    /\ pc = "start"
    /\ \E excel_file, photos_archive, template_file \in {"absent", "ok", "bad"} :
         /\ uploads' = [excel_file |-> excel_file, photos_archive |-> photos_archive,
                        template_file |-> template_file]
         /\ IF excel_file # "absent" /\ photos_archive # "absent"
                                     /\ template_file # "absent"
            THEN /\ pc' = "fonts"
                 /\ ui' = ui
            ELSE /\ pc' = "idle"
                 /\ ui' = Append(ui, [level |-> "info", kind |-> "upload_prompt"])
    /\ UNCHANGED <<fonts, df, images, template, tmpdir, idx, output_cards,
                   barcode_tmp, pdf, lookup, fontcall>>

\* lines 95-96
LoadFonts ==
    /\ pc = "fonts"
    /\ \E session \in FontSessions :
         LET ar == load_font_from_upload(session.ar, "Arabic", 36, session.installed)
             en == load_font_from_upload(session.en, "English", 30, session.installed)
         IN  /\ fonts' = [loaded |-> TRUE, font_ar |-> ar.font, font_en |-> en.font]
             /\ ui' = ui \o ar.said \o en.said
    /\ pc' = "excel"
    /\ UNCHANGED <<uploads, df, images, template, tmpdir, idx, output_cards, barcode_tmp,
                   pdf, lookup, fontcall>>

\* lines 98-107
ReadExcel ==
    /\ pc = "excel"
    /\ IF uploads.excel_file = "bad"
       THEN /\ ui' = Append(ui, [level |-> "error", kind |-> "excel_unreadable"])
            /\ pc' = st_stop("template")
            /\ df' = df
       ELSE /\ \E roster \in Rosters : df' = roster
            /\ pc' = "template"
            /\ ui' = ui
    /\ UNCHANGED <<uploads, fonts, images, template, tmpdir, idx, output_cards,
                   barcode_tmp, pdf, lookup, fontcall>>

\* lines 109-114
ReadTemplate ==
    /\ pc = "template"
    /\ IF uploads.template_file = "bad"
       THEN /\ ui' = Append(ui, [level |-> "error", kind |-> "template_unreadable"])
            /\ pc' = st_stop("archive")
            /\ UNCHANGED <<images, template>>
       ELSE /\ \E size \in TemplateSizes :
                 images' = Append(images, [size |-> size, ops |-> <<>>])
            /\ template' = Len(images) + 1
            /\ pc' = "archive"
            /\ ui' = ui
    /\ UNCHANGED <<uploads, fonts, df, tmpdir, idx, output_cards, barcode_tmp, pdf,
                   lookup, fontcall>>

\* lines 116-119: the directory is made and the upload written into it
SaveArchive ==
    /\ pc = "archive"
    /\ tmpdir' = [state |-> "exists",
                  walk |-> <<[dirpath |-> <<>>, filenames |-> <<photos_zip>>]>>]
    /\ pc' = "extract"
    /\ UNCHANGED <<uploads, ui, fonts, df, images, template, idx, output_cards, barcode_tmp,
                   pdf, lookup, fontcall>>

\* a listing's file names with one more name after the first pos of them
Listed(filenames, name, pos) ==
    SubSeq(filenames, 1, pos) \o <<name>> \o SubSeq(filenames, pos + 1, Len(filenames))

\* the listing with a new file in the top directory; where the listing shows
\* the file is the file system's order
WithFile(walk, name, pos) ==
    [k \in 1..Len(walk) |->
        IF k = 1
        THEN [dirpath |-> walk[k].dirpath,
              filenames |-> Listed(walk[k].filenames, name, pos)]
        ELSE walk[k]]

\* the listing of the directory once the archive's files are beside the archive
\* itself
Extracted(zipwalk, pos) == WithFile(zipwalk, photos_zip, pos)

\* lines 121-128
ExtractZip ==
    /\ pc = "extract"
    /\ IF uploads.photos_archive = "bad"
       THEN /\ ui' = Append(ui, [level |-> "error", kind |-> "archive_unextractable"])
            /\ tmpdir' = [state |-> "deleted", walk |-> <<>>]
            /\ pc' = st_stop("precheck")
       ELSE /\ \E zipwalk \in ZipWalks :
                 \E pos \in 0..Len(zipwalk[1].filenames) :
                     tmpdir' = [state |-> "exists", walk |-> Extracted(zipwalk, pos)]
            /\ pc' = "precheck"
            /\ ui' = ui
    /\ UNCHANGED <<uploads, fonts, df, images, template, idx, output_cards,
                   barcode_tmp, pdf, lookup, fontcall>>

\* lines 138-140: the lowercased names of all files under the directory
AvailablePhotos(walk) ==
    {Lower(WalkEntries(walk)[i].name) : i \in 1..Len(WalkEntries(walk))}

\* line 142: the lowercased, stripped photo cells that are not NaN
RequestedPhotos(roster) ==
    {Lower(Strip(PyStr(roster.rows[i]["photo"]))) :
        i \in {j \in 1..Len(roster.rows) : ~roster.rows[j]["photo"].nan}}

\* lines 130-146: the missing-photo report; df["photo"] raises KeyError when
\* the sheet has no such column, which ends the script run
PreCheck ==
    /\ pc = "precheck"
    /\ IF "photo" \notin df.columns
       THEN /\ pc' = "crashed"
            /\ ui' = Append(ui, [level |-> "exception", kind |-> "KeyError"])
       ELSE LET missing == RequestedPhotos(df) \ AvailablePhotos(tmpdir.walk)
            IN  /\ pc' = "loop"
                /\ ui' = IF missing # {}
                         THEN Append(ui, [level |-> "error", kind |-> "missing_photos",
                                          count |-> Cardinality(missing),
                                          names |-> missing])
                         ELSE ui
    /\ UNCHANGED <<uploads, fonts, df, images, template, tmpdir, idx, output_cards,
                   barcode_tmp, pdf, lookup, fontcall>>

\* the name as the warnings print it: row.get("name", "") formatted into the text
ShownName(row) == PyStr(RowGet(row, "name"))

\* the photo step that skips a photo it cannot find without a word
PhotoStepSilent(heap, card, walk, row, i, photo_filename) ==
    LET photo_path == find_photo_path(walk, photo_filename)
    IN  IF photo_path.found /\ PathExists(walk, photo_path)
        THEN IF IsImageFile(photo_path)
             THEN [heap |-> Drawn(heap, card,
                                  <<PasteOp(heap[card].size,
                                            [kind |-> "photo", path |-> photo_path],
                                            PHOTO_POS, PHOTO_SIZE)>>),
                   said |-> <<>>]
             ELSE [heap |-> heap,
                   said |-> <<[level |-> "warning", kind |-> "photo_failed", row |-> i,
                               name |-> ShownName(row)]>>]
        ELSE [heap |-> heap, said |-> <<>>]

\* lines 183-192: the photo step on the card; gives the heap and the warnings
PhotoStep(heap, card, walk, row, i, photo_filename) ==
    LET photo_path == find_photo_path(walk, photo_filename)
    IN  IF photo_path.found /\ PathExists(walk, photo_path)
        THEN IF IsImageFile(photo_path)
             THEN [heap |-> Drawn(heap, card,
                                  <<PasteOp(heap[card].size,
                                            [kind |-> "photo", path |-> photo_path],
                                            PHOTO_POS, PHOTO_SIZE)>>),
                   said |-> <<>>]
             ELSE [heap |-> heap,
                   said |-> <<[level |-> "warning", kind |-> "photo_failed", row |-> i,
                               name |-> ShownName(row)]>>]
        ELSE [heap |-> heap,
              said |-> <<[level |-> "warning", kind |-> "photo_not_found", row |-> i,
                          name |-> ShownName(row), requested |-> photo_filename]>>]

\* lines 194-206: the barcode step on the card; gives the heap, the warnings
\* and whether the temporary barcode file is still on disk afterwards.  The
\* file is made before the identifier is encoded and removed only after the
\* paste; an empty identifier does nothing at all.
BarcodeStep(heap, card, row, i, national_id) ==
    IF national_id = <<>>
    THEN [heap |-> heap, said |-> <<>>, leftover |-> FALSE]
    ELSE IF Encodable(national_id)
    THEN [heap |-> Drawn(heap, card,
                         <<PasteOp(heap[card].size,
                                   [kind |-> "barcode", data |-> national_id],
                                   BARCODE_POS, BARCODE_SIZE)>>),
          said |-> <<>>, leftover |-> FALSE]
    ELSE [heap |-> heap,
          said |-> <<[level |-> "warning", kind |-> "barcode_failed", row |-> i,
                      name |-> ShownName(row)]>>,
          leftover |-> TRUE]

\* lines 155-206: the card of one row, composed on a copy of the template
ComposeCard(heap, tpl, font_ar, walk, row, i) ==
    LET c == ImageCopy(heap, tpl)
        name == prepare_text(Field(row, "name"))
        job == prepare_text(Field(row, "job"))
        num == Field(row, "num")
        national_id == Field(row, "national_id")
        photo_filename == Field(row, "photo")
        texted == Drawn(c.heap, c.id, TextOps(name, job, num, font_ar))
        photo == PhotoStep(texted, c.id, walk, row, i, photo_filename)
        barcode == BarcodeStep(photo.heap, c.id, row, i, national_id)
    IN  [heap |-> barcode.heap, card |-> c.id, said |-> photo.said \o barcode.said,
         leftover |-> barcode.leftover]

\* output_cards.append(card) that puts the card in front
AppendFront(cards, card) == <<card>> \o cards

\* line 208
AppendCard(cards, card) == Append(cards, card)

\* lines 153-209: one iteration of the row loop
ProcessRow ==
    /\ pc = "loop"
    /\ idx < Len(df.rows)
    /\ LET done == ComposeCard(images, template, fonts.font_ar, tmpdir.walk,
                               df.rows[idx + 1], idx)
       IN  /\ images' = done.heap
           /\ ui' = ui \o done.said
           /\ barcode_tmp' = IF done.leftover THEN barcode_tmp \cup {idx} ELSE barcode_tmp
           /\ output_cards' = AppendCard(output_cards, done.card)
    /\ idx' = idx + 1
    /\ UNCHANGED <<pc, uploads, fonts, df, template, tmpdir, pdf, lookup, fontcall>>

\* the pages written for a list of cards
Pages(heap, cards) == [k \in 1..Len(cards) |-> heap[cards[k]]]

\* "All_ID_Cards.pdf"
pdf_name == <<"A", "l", "l", "_", "I", "D", "_", "C", "a", "r", "d", "s", ".", "p", "d", "f">>

\* how far the try block of lines 214-222 gets: the save raises (nothing is
\* left on disk), reading the file back or the download button raises, the
\* preview raises after the success message, or nothing raises
ExportOutcomes == {"save_failed", "offer_failed", "preview_failed", "shown"}

\* lines 211-225: the document is written into the directory, offered and
\* reported, any failure on the way is reported as a failed write; without a
\* card only a warning is shown
ExportPdf ==
    /\ pc = "loop"
    /\ idx = Len(df.rows)
    /\ IF output_cards # <<>>
       THEN \E outcome \in ExportOutcomes :
              LET generated == [level |-> "success", kind |-> "generated",
                                count |-> Len(output_cards)]
                  failed == [level |-> "error", kind |-> "pdf_failed"]
              IN  IF outcome = "save_failed"
                  THEN /\ pdf' = pdf
                       /\ tmpdir' = tmpdir
                       /\ ui' = Append(ui, failed)
                  ELSE /\ \E pos \in 0..Len(tmpdir.walk[1].filenames) :
                            tmpdir' = [tmpdir EXCEPT
                                          !.walk = WithFile(tmpdir.walk, pdf_name, pos)]
                       /\ pdf' = [written |-> TRUE,
                                  pages |-> Pages(images, output_cards),
                                  offered |-> outcome # "offer_failed"]
                       /\ ui' = CASE outcome = "offer_failed" -> Append(ui, failed)
                                  [] outcome = "preview_failed" ->
                                         Append(Append(ui, generated), failed)
                                  [] OTHER -> Append(ui, generated)
       ELSE /\ pdf' = pdf
            /\ tmpdir' = tmpdir
            /\ ui' = Append(ui, [level |-> "warning", kind |-> "no_cards"])
    /\ pc' = "done"
    /\ UNCHANGED <<uploads, fonts, df, images, template, idx, output_cards,
                   barcode_tmp, lookup, fontcall>>

Next ==
    \/ Gate
    \/ LoadFonts
    \/ ReadExcel
    \/ ReadTemplate
    \/ SaveArchive
    \/ ExtractZip
    \/ PreCheck
    \/ ProcessRow
    \/ ExportPdf

Spec == Init /\ [][Next]_vars

\* ------------------------------------------------------------------ lookup

\* trees for a stand-alone lookup: files in the root, in "d" and in "d/e"
LookupNames == {bob_png, bob_jpg, Alice_PNG, bob_tar_gz}

LookupWalks ==
    {<<[dirpath |-> <<>>, filenames |-> f[1]],
       [dirpath |-> <<"d">>, filenames |-> f[2]],
       [dirpath |-> <<"d", "e">>, filenames |-> f[3]]>> :
        f \in {p \in InjSeqsUpTo(LookupNames, MaxLookupFiles)
                     \X InjSeqsUpTo(LookupNames, MaxLookupFiles)
                     \X InjSeqsUpTo(LookupNames, MaxLookupFiles) :
                 Len(p[1]) + Len(p[2]) + Len(p[3]) <= MaxLookupFiles}}

LookupRequests ==
    {<<>>,
     <<"b", "o", "b">>,
     <<"B", "o", "b", ".", "j", "p", "g">>,
     <<"A", "l", "i", "c", "e", ".", "j", "p", "g">>,
     <<"a", "l", "i", "c", "e">>,
     <<"z", "e", "d", ".", "p", "n", "g">>,
     <<"d", "/", "b", "o", "b", ".", "p", "n", "g">>,
     <<"b", "o", "b", ".", "t", "a", "r", ".", "p", "n", "g">>,
     <<".", "p", "n", "g">>}

InitLookup ==
    /\ pc = "lookup"
    /\ uploads = NoUploads
    /\ ui = <<>>
    /\ fonts = [loaded |-> FALSE]
    /\ df = NoRoster
    /\ images = <<>>
    /\ template = 0
    /\ tmpdir = NoDir
    /\ idx = 0
    /\ output_cards = <<>>
    /\ barcode_tmp = {}
    /\ pdf = NoPdf
    /\ lookup \in {[phase |-> "asked", root_dir |-> w, requested |-> r] :
                      w \in LookupWalks, r \in LookupRequests}
    /\ fontcall = [phase |-> "idle"]

\* one call find_photo_path(root_dir, requested)
Resolve ==
    /\ lookup.phase = "asked"
    /\ lookup' = [phase |-> "answered", root_dir |-> lookup.root_dir,
                  requested |-> lookup.requested,
                  result |-> find_photo_path(lookup.root_dir, lookup.requested)]
    /\ UNCHANGED <<pc, uploads, ui, fonts, df, images, template, tmpdir, idx,
                   output_cards, barcode_tmp, pdf, fontcall>>

NextLookup == Resolve

SpecLookup == InitLookup /\ [][NextLookup]_vars

\* ------------------------------------------------------------------ font call

\* the font files a machine may have: the candidate names and one more
FontFiles ==
    {"Amiri-Regular.ttf", "NotoNaskhArabic-Regular.ttf", "Arial.ttf", "Tahoma.ttf",
     "Amiri.ttf"}

\* the two calls the script makes (lines 95-96): role and point size
FontRoles == {[fallback_name |-> "Arabic", size |-> 36],
              [fallback_name |-> "English", size |-> 30]}

InitFont ==
    /\ pc = "fontcall"
    /\ uploads = NoUploads
    /\ ui = <<>>
    /\ fonts = [loaded |-> FALSE]
    /\ df = NoRoster
    /\ images = <<>>
    /\ template = 0
    /\ tmpdir = NoDir
    /\ idx = 0
    /\ output_cards = <<>>
    /\ barcode_tmp = {}
    /\ pdf = NoPdf
    /\ lookup = [phase |-> "idle"]
    /\ fontcall \in {[phase |-> "asked", upload |-> u, role |-> r, installed |-> i] :
                        u \in {"none", "good", "bad"}, r \in FontRoles,
                        i \in SUBSET FontFiles}

\* one call load_font_from_upload(upload, fallback_name, size); its messages
\* go to the page
LoadOneFont ==
    /\ fontcall.phase = "asked"
    /\ LET r == load_font_from_upload(fontcall.upload, fontcall.role.fallback_name,
                                      fontcall.role.size, fontcall.installed)
       IN  /\ fontcall' = [phase |-> "answered", upload |-> fontcall.upload,
                           role |-> fontcall.role, installed |-> fontcall.installed,
                           font |-> r.font]
           /\ ui' = ui \o r.said
    /\ UNCHANGED <<pc, uploads, fonts, df, images, template, tmpdir, idx,
                   output_cards, barcode_tmp, pdf, lookup>>

NextFont == LoadOneFont

SpecFont == InitFont /\ [][NextFont]_vars

\* ------------------------------------------------------------------ claims

\* the rows the loop has finished (0-based row indices)
RowsDone == IF pc \in {"loop", "done"} THEN 0..(idx - 1) ELSE {}

\* the card of a row, composed alone on a fresh copy of the template
CardAlone(i) ==
    LET r == ComposeCard(<<images[template]>>, 1, fonts.font_ar, tmpdir.walk,
                         df.rows[i + 1], i)
    IN  r.heap[r.card]

\* the messages of one kind about one row
RowMessages(kinds, i) ==
    {k \in 1..Len(ui) : ui[k].kind \in kinds /\ ui[k].row = i}

\* the paste operations of one kind on a card
Pastes(card, kind) ==
    {k \in 1..Len(images[card].ops) :
        /\ images[card].ops[k].op = "paste"
        /\ images[card].ops[k].what.kind = kind}

\* some file under the root has the stem of the request, ignoring case
StemPresent(walk, requested) ==
    \E d \in 1..Len(walk) : \E k \in 1..Len(walk[d].filenames) :
        Lower(PathStem(walk[d].filenames[k])) = Lower(PathStem(requested))

\* C1: the row loop appends exactly one card per row, in row order, whatever
\* fails on a row's photo or barcode: after i rows there are i cards, card i
\* is the card of row i, and a written document has one page per row, page i
\* being the card of row i.
C1_OneCardPerRowInOrder ==
    /\ pc \in {"loop", "done"} =>
         /\ Len(output_cards) = idx
         /\ \A i \in RowsDone : images[output_cards[i + 1]] = CardAlone(i)
    /\ pc = "done" => Len(output_cards) = Len(df.rows)
    /\ pdf.written =>
         /\ Len(pdf.pages) = Len(df.rows)
         /\ \A i \in RowsDone : pdf.pages[i + 1] = CardAlone(i)

\* a written document of two different cards, the first row's photo not found
\* and the second row's barcode refused
C1_Witness ==
    /\ pdf.written
    /\ Len(df.rows) = 2
    /\ pdf.pages[1] # pdf.pages[2]
    /\ RowMessages({"photo_not_found"}, 0) # {}
    /\ RowMessages({"barcode_failed"}, 1) # {}

\* C2: once the extraction directory exists, every way the run ends leaves it
\* deleted.
C2_TmpdirDeletedOnEveryExit ==
    pc \in {"done", "stopped"} => tmpdir.state # "exists"

\* the rank of a file's extension in the order PNG, JPG, JPEG, BMP, others
ExtRank(fn) ==
    LET e == Lower(PathSuffix(fn))
    IN  CASE e = <<".", "p", "n", "g">> -> 0
          [] e = <<".", "j", "p", "g">> -> 1
          [] e = <<".", "j", "p", "e", "g">> -> 2
          [] e = <<".", "b", "m", "p">> -> 3
          [] OTHER -> 4

\* C3: among the files with the requested stem, the one returned has the
\* best-ranked extension, whatever the order of the walk.
C3_BestExtensionWins ==
    (lookup.phase = "answered" /\ lookup.result.found) =>
        \A d \in 1..Len(lookup.root_dir) :
            \A k \in 1..Len(lookup.root_dir[d].filenames) :
                LET fn == lookup.root_dir[d].filenames[k]
                IN  Lower(PathStem(fn)) = Lower(PathStem(lookup.requested))
                        => ExtRank(lookup.result.name) <= ExtRank(fn)

\* C4: the lookup finds nothing exactly when the request is empty or no file
\* at any depth has the request's stem ignoring case; otherwise it returns a
\* file that is in the tree and has that stem.
C4_FoundIffStemPresent ==
    lookup.phase = "answered" =>
        LET absent == \/ lookup.requested = <<>>
                      \/ ~StemPresent(lookup.root_dir, lookup.requested)
        IN  /\ (lookup.result = NoPath) <=> absent
            /\ lookup.result # NoPath =>
                 /\ \E d \in 1..Len(lookup.root_dir) :
                        /\ lookup.root_dir[d].dirpath = lookup.result.dir
                        /\ \E k \in 1..Len(lookup.root_dir[d].filenames) :
                               lookup.root_dir[d].filenames[k] = lookup.result.name
                 /\ Lower(PathStem(lookup.result.name))
                        = Lower(PathStem(lookup.requested))

\* "Alice.jpg" is asked for and "Alice.PNG", two folders down, is returned
C4_Witness ==
    /\ lookup.phase = "answered"
    /\ lookup.requested = <<"A", "l", "i", "c", "e", ".", "j", "p", "g">>
    /\ lookup.result = JoinPath(<<"d", "e">>, Alice_PNG)

\* the request of a row resolves to no file
Unresolved(i) ==
    \/ Field(df.rows[i + 1], "photo") = <<>>
    \/ ~StemPresent(tmpdir.walk, Field(df.rows[i + 1], "photo"))

\* C5: a row whose photo cannot be resolved gets no photo pasted and exactly
\* one warning, which names the row and the requested file name; its card is
\* appended all the same, and the loop goes on to the last row.
C5_MissingPhotoIsOneWarning ==
    /\ \A i \in RowsDone :
         Unresolved(i) =>
            /\ Pastes(output_cards[i + 1], "photo") = {}
            /\ Cardinality(RowMessages({"photo_not_found", "photo_failed"}, i)) = 1
            /\ \A k \in RowMessages({"photo_not_found", "photo_failed"}, i) :
                  /\ ui[k].level = "warning"
                  /\ ui[k].kind = "photo_not_found"
                  /\ ui[k].name = ShownName(df.rows[i + 1])
                  /\ ui[k].requested = Field(df.rows[i + 1], "photo")
    /\ pc = "done" => idx = Len(df.rows) /\ Len(output_cards) = Len(df.rows)

\* two rows done: the first one's photo is not in the archive, the second
\* one's is and was pasted
C5_Witness ==
    /\ pc = "done"
    /\ Len(df.rows) = 2
    /\ Unresolved(0)
    /\ RowMessages({"photo_not_found"}, 0) # {}
    /\ ~Unresolved(1)
    /\ Pastes(output_cards[2], "photo") # {}

\* C6: a row whose national identifier is empty, or is refused by the barcode
\* encoder, gets no barcode pasted and exactly one warning about its barcode;
\* its card is appended all the same, and the loop goes on to the last row.
C6_NoBarcodeIsOneWarning ==
    /\ \A i \in RowsDone :
         LET national_id == Field(df.rows[i + 1], "national_id")
         IN  (national_id = <<>> \/ ~Encodable(national_id)) =>
                /\ Pastes(output_cards[i + 1], "barcode") = {}
                /\ Cardinality(RowMessages({"barcode_failed", "national_id_missing"}, i)) = 1
    /\ pc = "done" => idx = Len(df.rows) /\ Len(output_cards) = Len(df.rows)

\* the value of a column is missing from the sheet for a row
Missing(row, col) == col \notin DOMAIN row \/ row[col].nan

\* C7: a value missing from the sheet is used as the empty string, for each of
\* the five fields; so a row without a national identifier gets no barcode
\* and a row without a photo file name gets no photo and the not-found
\* warning.
C7_MissingValueIsEmptyString ==
    \A i \in RowsDone :
        LET row == df.rows[i + 1]
        IN  /\ \A col \in Columns : Missing(row, col) => Field(row, col) = <<>>
            /\ Missing(row, "national_id") => Pastes(output_cards[i + 1], "barcode") = {}
            /\ Missing(row, "photo") =>
                 /\ Pastes(output_cards[i + 1], "photo") = {}
                 /\ RowMessages({"photo_not_found"}, i) # {}

\* every file with the request's stem can be opened as an image, and there is one
ResolvesReadable(walk, requested) ==
    /\ requested # <<>>
    /\ StemPresent(walk, requested)
    /\ \A d \in 1..Len(walk) : \A k \in 1..Len(walk[d].filenames) :
          Lower(PathStem(walk[d].filenames[k])) = Lower(PathStem(requested))
              => IsImageFile(JoinPath(walk[d].dirpath, walk[d].filenames[k]))

\* the missing-photo report and the per-row warnings
Diagnostics ==
    {k \in 1..Len(ui) :
        ui[k].kind \in {"missing_photos", "photo_not_found", "photo_failed",
                        "barcode_failed", "national_id_missing"}}

\* C8: a finished run in which every row's photo resolves by stem to a
\* readable file and every row's national identifier is non-empty and
\* encodable has emitted no missing-photo report and no per-row warning.
C8_CleanRunIsSilent ==
    ( /\ pc = "done"
      /\ Len(df.rows) >= 1
      /\ \A i \in 1..Len(df.rows) :
            /\ ResolvesReadable(tmpdir.walk, Field(df.rows[i], "photo"))
            /\ Encodable(Field(df.rows[i], "national_id")) )
    => Diagnostics = {}

\* the input whose failure the run has met, "none" before it is read
FailedInput ==
    IF pc \in {"start", "idle", "fonts", "excel"} THEN "none"
    ELSE IF uploads.excel_file = "bad" THEN "excel_unreadable"
    ELSE IF pc = "template" THEN "none"
    ELSE IF uploads.template_file = "bad" THEN "template_unreadable"
    ELSE IF pc \in {"archive", "extract"} THEN "none"
    ELSE IF uploads.photos_archive = "bad" THEN "archive_unextractable"
    ELSE "none"

\* C9: once an unreadable sheet, an unreadable template or an archive that
\* cannot be extracted has been read, the run has stopped, its last message
\* is the error naming that input, no row was composed and no document was
\* written or offered.
C9_FatalInputStopsRun ==
    FailedInput # "none" =>
        /\ pc = "stopped"
        /\ ui # <<>>
        /\ ui[Len(ui)] = [level |-> "error", kind |-> FailedInput]
        /\ idx = 0
        /\ output_cards = <<>>
        /\ Len(images) <= 1
        /\ ~pdf.written
        /\ ~pdf.offered
        /\ \A k \in 1..Len(WalkEntries(tmpdir.walk)) :
             WalkEntries(tmpdir.walk)[k].name # pdf_name

\* a two-row sheet and a template were read, then the archive failed to extract
C9_Witness ==
    /\ pc = "stopped"
    /\ Len(df.rows) = 2
    /\ template # 0
    /\ uploads.photos_archive = "bad"
    /\ ui[Len(ui)].kind = "archive_unextractable"

\* C10: the template is as it was read (nothing drawn or pasted on it), every
\* card is an image of its own, different from the template and from every
\* other card, and has the template's size, with or without photo and barcode.
C10_TemplateUntouched ==
    template # 0 =>
        /\ images[template].ops = <<>>
        /\ images[template].size \in TemplateSizes
        /\ \A k \in 1..Len(output_cards) :
              /\ output_cards[k] # template
              /\ images[output_cards[k]].size = images[template].size
              /\ \A j \in 1..Len(output_cards) :
                    j # k => output_cards[j] # output_cards[k]

\* on the small template: a card with photo and barcode pasted (clipped to
\* the card) and a card with neither
C10_Witness ==
    /\ pc = "done"
    /\ images[template].size = <<600, 400>>
    /\ Len(output_cards) = 2
    /\ Pastes(output_cards[1], "photo") # {}
    /\ Pastes(output_cards[1], "barcode") # {}
    /\ Pastes(output_cards[2], "photo") = {}
    /\ Pastes(output_cards[2], "barcode") = {}

\* the first candidate name, in list order, that the machine can load; 0 if none
FirstLoadable(installed) ==
    IF \A k \in 1..Len(FontCandidates) : FontCandidates[k] \notin installed THEN 0
    ELSE CHOOSE k \in 1..Len(FontCandidates) :
            /\ FontCandidates[k] \in installed
            /\ \A j \in 1..(k - 1) : FontCandidates[j] \notin installed

\* the font a call must return: the upload when it loads, else the first
\* loadable candidate at the asked size, else the built-in default
FontChoiceRight ==
    IF fontcall.upload = "good"
    THEN fontcall.font = [face |-> "upload", size |-> fontcall.role.size]
    ELSE IF FirstLoadable(fontcall.installed) # 0
    THEN fontcall.font = [face |-> FontCandidates[FirstLoadable(fontcall.installed)],
                          size |-> fontcall.role.size]
    ELSE fontcall.font.face = "default"

\* C11 as stated: the call returns the right font and a failing upload falls
\* through to the candidates silently, so no call emits any message.
C11_FontFallbackSilent ==
    fontcall.phase = "answered" => (FontChoiceRight /\ ui = <<>>)

\* C11 as amended: the call returns the right font; a failing upload falls
\* through to the candidates after exactly one warning that names the font's
\* role, and no other call emits a message.
C11_FontFallbackWarnsOnce ==
    fontcall.phase = "answered" =>
        /\ FontChoiceRight
        /\ ui = IF fontcall.upload = "bad"
                THEN <<[level |-> "warning", kind |-> "font_upload_failed",
                        font |-> fontcall.role.fallback_name]>>
                ELSE <<>>

\* an upload that fails to load, on a machine with the third and fourth
\* candidate and a font that is not a candidate: the third is returned
C11_Witness ==
    /\ fontcall.phase = "answered"
    /\ fontcall.upload = "bad"
    /\ fontcall.installed = {"Arial.ttf", "Tahoma.ttf", "Amiri.ttf"}
    /\ fontcall.font = [face |-> "Arial.ttf", size |-> 36]
    /\ Len(ui) = 1

\* C12: after the barcode step of a row, pasted or failed, no temporary
\* barcode file of that row is left on disk; none is left after the loop.
C12_NoBarcodeTempLeft ==
    pc \in {"loop", "done"} => barcode_tmp = {}

====
